---- MODULE Spec2Model ----
(***************************************************************************)
(* Model of youtube_channel_export.py: the identifier classifier, the      *)
(* channel resolver, the cursor-paginated upload enumerator, the batch     *)
(* video fetcher, the CSV writers and the driver loop of main().           *)
(*                                                                         *)
(* Python strings are modelled as sequences of one-character strings, so   *)
(* that strip(), startswith(), len(), slicing and the regular-expression   *)
(* searches are computed the way the code computes them.                   *)
(***************************************************************************)
EXTENDS Integers, Sequences, FiniteSets, TLC

(***************************************************************************)
(* Bounds of the model.                                                    *)
(***************************************************************************)
\* Number of characters that follow "UC" in the classifier's channel-ID inputs.
TailLen == 20
\* Largest number of raw lines in the input file.
MaxLines == 2
\* Largest number of pages of an uploads playlist.
MaxPages == 3

(***************************************************************************)
(* Program constants.                                                      *)
(***************************************************************************)
\* len(v) >= 20 in extract_channel_identifier.
MinIdLen == 20
\* name[:120] in sanitize_filename.
MaxNameLen == 120
\* chunks(video_ids, 50) in fetch_videos_details.
BatchSize == 50

(***************************************************************************)
(* Characters and string helpers.                                          *)
(***************************************************************************)
Lower == {"a","b","c","d","e","f","g","h","i","j","k","l","m",
          "n","o","p","q","r","s","t","u","v","w","x","y","z"}
Upper == {"A","B","C","D","E","F","G","H","I","J","K","L","M",
          "N","O","P","Q","R","S","T","U","V","W","X","Y","Z"}
Digit == {"0","1","2","3","4","5","6","7","8","9"}
\* Characters str.strip() and the regex class \s treat as white space.
Whitespace == {" ", "\t", "\n", "\r", "\f"}
\* [A-Za-z0-9_-]
IdClass == Lower \cup Upper \cup Digit \cup {"_", "-"}
\* [A-Za-z0-9_.-]
HandleClass == IdClass \cup {"."}
\* [\\/:*?"<>|]
UnsafeClass == {"\\", "/", ":", "*", "?", "\"", "<", ">", "|"}

Min(S) == CHOOSE x \in S : \A y \in S : x <= y
Max(S) == CHOOSE x \in S : \A y \in S : x >= y

\* n copies of the character c.
Rep(c, n) == [k \in 1..n |-> c]

\* str.strip(): drop leading and trailing white space.
Strip(s) ==
    LET keep == {k \in 1..Len(s) : s[k] \notin Whitespace}
    IN  IF keep = {} THEN <<>> ELSE SubSeq(s, Min(keep), Max(keep))

\* str.startswith(prefix)
StartsWith(s, prefix) ==
    /\ Len(prefix) <= Len(s)
    /\ SubSeq(s, 1, Len(prefix)) = prefix

\* re.search(literal + "([class]+)", s): the capture group of the leftmost
\* match, taken greedily; NoMatch when the pattern occurs nowhere.
NoMatch == <<"<none>">>
ReSearch(s, literal, class) ==
    LET n  == Len(literal)
        ps == {p \in 1..Len(s) :
                 /\ p + n <= Len(s)
                 /\ SubSeq(s, p, p + n - 1) = literal
                 /\ s[p + n] \in class}
    IN  IF ps = {} THEN NoMatch
        ELSE LET q == Min(ps) + n
                 e == Max({k \in q..Len(s) : \A j \in q..k : s[j] \in class})
             IN  SubSeq(s, q, e)

YoutubeCom == <<"y","o","u","t","u","b","e",".","c","o","m","/">>
ChannelPath == YoutubeCom \o <<"c","h","a","n","n","e","l","/">>
UserPath == YoutubeCom \o <<"u","s","e","r","/">>
HandlePath == YoutubeCom \o <<"@">>
CustomPath == YoutubeCom \o <<"c","/">>

(***************************************************************************)
(* extract_channel_identifier                                              *)
(***************************************************************************)
\* The test of the first rule, on the stripped string.
IsFullChannelIdExact(v) == StartsWith(v, <<"U","C">>) /\ Len(v) = 24
IsFullChannelId(v) == StartsWith(v, <<"U","C">>) /\ Len(v) >= MinIdLen

extract_channel_identifier(value) ==
    LET v == Strip(value)
    IN  IF IsFullChannelId(v) THEN <<"id", v>>
        ELSE IF ReSearch(v, ChannelPath, IdClass) # NoMatch
             THEN <<"id", ReSearch(v, ChannelPath, IdClass)>>
        ELSE IF ReSearch(v, UserPath, IdClass) # NoMatch
             THEN <<"username", ReSearch(v, UserPath, IdClass)>>
        ELSE IF ReSearch(v, HandlePath, HandleClass) # NoMatch
             THEN <<"query", ReSearch(v, HandlePath, HandleClass)>>
        ELSE IF StartsWith(v, <<"@">>)
             THEN <<"query", SubSeq(v, 2, Len(v))>>
        ELSE IF ReSearch(v, CustomPath, HandleClass) # NoMatch
             THEN <<"query", ReSearch(v, CustomPath, HandleClass)>>
        ELSE <<"query", v>>

(***************************************************************************)
(* Inputs of the classifier.                                               *)
(***************************************************************************)
\* Characters the tail of a channel-ID input is built from.
TailChars == {"a", "Z", "9", "_", "-", ".", "/", "@", " ", "\t"}
\* "UC" followed by TailLen characters: k copies of one, then copies of another.
UcInputs ==
    {<<"U","C">> \o Rep(a, k) \o Rep(b, TailLen - k) :
        a \in TailChars, b \in TailChars, k \in 0..TailLen}
\* One input per other rule of the classifier.
UrlInputs ==
    { ChannelPath \o <<"X","y","-","1","/","v">>,
      <<"h","t","t","p","s",":","/","/">> \o UserPath \o <<"b","o","b","?","x">>,
      HandlePath \o <<"h",".","i","/">>,
      <<"@","h","i">>,
      CustomPath \o <<"n","a","m","e">>,
      <<"f","r","e","e"," ","t","e","x","t">>,
      <<"U","C","s","h","o","r","t">>,
      ChannelPath,
      <<>> }
ClassifierInputs == UcInputs \cup UrlInputs

(***************************************************************************)
(* sanitize_filename                                                       *)
(***************************************************************************)
ChannelWord == <<"c","h","a","n","n","e","l">>

\* re.sub(r"[\\/:*?\"<>|]", "_", name)
ReplaceUnsafe(s) == [k \in 1..Len(s) |-> IF s[k] \in UnsafeClass THEN "_" ELSE s[k]]

\* re.sub(r"\s+", " ", name): every run of white space becomes one space.
RECURSIVE CollapseWs(_)
CollapseWs(s) ==
    IF s = <<>> THEN <<>>
    ELSE IF Head(s) \notin Whitespace THEN <<Head(s)>> \o CollapseWs(Tail(s))
    ELSE LET rest == {k \in 2..Len(s) : s[k] \notin Whitespace}
         IN  IF rest = {} THEN <<" ">>
             ELSE <<" ">> \o CollapseWs(SubSeq(s, Min(rest), Len(s)))

sanitize_filename(name) ==
    LET n1 == IF Strip(name) = <<>> THEN ChannelWord ELSE Strip(name)
        n3 == CollapseWs(ReplaceUnsafe(n1))
    IN  SubSeq(n3, 1, IF Len(n3) < MaxNameLen THEN Len(n3) ELSE MaxNameLen)

(***************************************************************************)
(* read_channels                                                           *)
(***************************************************************************)
\* Lines that survive: stripped, not empty, not starting with "#".
RECURSIVE read_channels(_)
read_channels(lines) ==
    IF lines = <<>> THEN <<>>
    ELSE LET v == Strip(Head(lines))
         IN  IF v = <<>> \/ StartsWith(v, <<"#">>)
             THEN read_channels(Tail(lines))
             ELSE <<v>> \o read_channels(Tail(lines))

(***************************************************************************)
(* chunks                                                                  *)
(***************************************************************************)
\* Slices that run one item into the next slice.
chunksOverlapping(items, size) ==
    LET n == Len(items)
        count == (n + size - 1) \div size
    IN  [k \in 1..count |->
            SubSeq(items, (k - 1) * size + 1,
                   IF k * size + 1 < n THEN k * size + 1 ELSE n)]
\* list(chunks(items, size)): the slices items[i : i + size], i = 0, size, ...
chunks(items, size) ==
    LET n == Len(items)
        count == (n + size - 1) \div size
    IN  [k \in 1..count |->
            SubSeq(items, (k - 1) * size + 1, IF k * size < n THEN k * size ELSE n)]

(***************************************************************************)
(* The platform behind http_get: channels, one uploads playlist, videos.   *)
(***************************************************************************)
Absent == <<"<absent>">>
NotFound == [found |-> FALSE]
UCa == <<"U","C">> \o Rep("a", 20)
UCb == <<"U","C">> \o Rep("b", 20)
\* Channel IDs the channels and search endpoints may answer with.
ApiChannelIds == {UCa, UCb}
\* Channel titles; the first two sanitize to the same file name.
Titles == { <<"A",":","b">>, <<" ","A","_","b">>, Absent }
PlaylistId == <<"P","L">>
ChannelEntries ==
    {NotFound} \cup
    { [found |-> TRUE, title |-> t, uploads |-> u] :
        t \in Titles, u \in {Absent, PlaylistId} }

\* A playlist is its pages; an item is a video ID (a positive number) or 0
\* for an item without contentDetails.videoId.  Page k's nextPageToken is
\* k + 1, the last page has none (0 stands for the empty token).
NoVideoId == 0
Offset(sizes, k) == IF k = 1 THEN 0 ELSE
    LET RECURSIVE Sum(_)
        Sum(j) == IF j = 0 THEN 0 ELSE sizes[j] + Sum(j - 1)
    IN  Sum(k - 1)
MkPlaylist(sizes, bad) ==
    [k \in 1..Len(sizes) |->
        [j \in 1..sizes[k] |->
            IF bad[k] /\ j = 1 THEN NoVideoId ELSE Offset(sizes, k) + j]]

\* What the videos endpoint may return for a batch: the requested records
\* in request order, in reverse order, or without the first (a removed video).
Reverse(s) == [k \in 1..Len(s) |-> s[Len(s) + 1 - k]]
VideoResponses(b) == {b, Reverse(b), Tail(b)}

VARIABLES value, classified,
          api_key, file, db, playlist,
          pc, exit_code, channels, idx, channel_rows,
          channel_id, channel, videos_info_path,
          page_token, video_ids, batch_no, details,
          files, channels_csv, log,
          calls, served, returned, faults, wrote, unresolved, row_lines

cvars == <<value, classified>>
env == <<api_key, file, db, playlist>>
locals == <<channel_id, channel, videos_info_path, page_token, video_ids,
            batch_no, details>>
outputs == <<files, channels_csv, log>>
history == <<calls, served, returned, faults, wrote, unresolved, row_lines>>
dvars == <<env, pc, exit_code, channels, idx, channel_rows, locals, outputs,
           history>>
vars == <<cvars, dvars>>


NotYet == <<"<pending>">>

(***************************************************************************)
(* Inputs of the driver.                                                   *)
(***************************************************************************)
\* Raw lines of the input file: a channel ID, a channel URL of the same
\* channel, a legacy user URL, a handle, a comment and a blank line.
FileLines ==
    { UCa \o <<" ">>,
      ChannelPath \o UCa,
      UserPath \o <<"b","o","b">>,
      <<"@","h","i">>,
      <<"#"," ","x">>,
      <<" ">> }
SeqsUpTo(S, n) == UNION {[1..k -> S] : k \in 0..n}
ApiKeys == {<<>>, <<"k","e","y">>}
Dbs == [ApiChannelIds -> ChannelEntries]
\* The uploads playlists of the driver runs: one empty page, or two pages
\* the first of which holds an item without a video ID.
SmallPlaylists ==
    { MkPlaylist(<<0>>, <<FALSE>>), MkPlaylist(<<2, 1>>, <<TRUE, FALSE>>) }

NoLocals ==
    /\ channel_id = Absent
    /\ channel = NotFound
    /\ videos_info_path = Absent
    /\ page_token = 0
    /\ video_ids = <<>>
    /\ batch_no = 0
    /\ details = <<>>

\* The requests of the line in progress, per endpoint: the forUsername and
\* the id form of channels, search, playlistItems (the cursor sent, 0 for
\* none) and videos (the batch sent).
NoCalls == [forUsername |-> <<>>, search |-> <<>>, channels |-> <<>>,
            playlistItems |-> <<>>, videos |-> <<>>]

Idle ==
    /\ pc = "start"
    /\ exit_code = -1
    /\ channels = <<>>
    /\ idx = 0
    /\ channel_rows = <<>>
    /\ NoLocals
    /\ files = << >>
    /\ channels_csv = <<>>
    /\ log = <<>>
    /\ calls = NoCalls
    /\ served = <<>>
    /\ returned = <<>>
    /\ faults = {}
    /\ wrote = {}
    /\ unresolved = {}
    /\ row_lines = {}

Init ==
    /\ value = <<>>
    /\ classified = NotYet
    /\ api_key \in ApiKeys
    /\ file \in SeqsUpTo(FileLines, MaxLines)
    /\ db \in Dbs
    /\ playlist \in SmallPlaylists
    /\ Idle

(***************************************************************************)
(* main: credential check and input file.                                  *)
(***************************************************************************)
\* not args.api_key
KeyIsNone(key) == key = Absent
KeyMissing(key) == key = <<>>

\* if not args.api_key: ... return 2
CheckApiKey ==
    /\ pc = "start"
    /\ IF KeyMissing(api_key)
       THEN pc' = "done" /\ exit_code' = 2
       ELSE pc' = "read" /\ exit_code' = exit_code
    /\ UNCHANGED <<cvars, env, channels, idx, channel_rows, locals, outputs,
                   history>>

\* channels = read_channels(args.input); if not channels: ... return 1
ReadChannels ==
    /\ pc = "read"
    /\ channels' = read_channels(file)
    /\ IF channels' = <<>>
       THEN pc' = "done" /\ exit_code' = 1 /\ idx' = idx
       ELSE pc' = "resolve" /\ exit_code' = exit_code /\ idx' = 1
    /\ channel_rows' = <<>>
    /\ UNCHANGED <<cvars, env, locals, outputs, history>>

(***************************************************************************)
(* main: the loop over the input lines.                                    *)
(***************************************************************************)
\* A loop that stops one value short.
NextLineShort(i, n) ==
    IF i + 1 < n THEN [pc |-> "resolve", idx |-> i + 1]
    ELSE [pc |-> "write_channels", idx |-> i]
\* The loop goes on with the next value, or leaves for the channel table.
NextLine(i, n) ==
    IF i < n THEN [pc |-> "resolve", idx |-> i + 1]
    ELSE [pc |-> "write_channels", idx |-> i]

\* A handler that lets the exception leave main.
Uncaught(i, n) == [pc |-> "done", idx |-> i]
\* except YouTubeApiError / except Exception: report, go on with the loop.
Caught(i, n) == NextLine(i, n)

\* The end of one iteration: the message printed and the locals dropped.
EndLine(msg, nxt) ==
    /\ log' = Append(log, msg)
    /\ pc' = nxt.pc
    /\ idx' = nxt.idx
    /\ channel_id' = Absent
    /\ channel' = NotFound
    /\ videos_info_path' = Absent
    /\ page_token' = 0
    /\ video_ids' = <<>>
    /\ batch_no' = 0
    /\ details' = <<>>

\* An exception raised while the line idx is processed.
Raise ==
    /\ faults' = faults \cup {idx}
    /\ EndLine("error", Caught(idx, Len(channels)))
    /\ exit_code' = IF pc' = "done" THEN 1 ELSE exit_code

\* A driver that goes on to the channel fetch whatever the resolver returned.
ResolvedNoSkip(id) ==
    /\ pc' = "details"
    /\ channel_id' = id
    /\ UNCHANGED <<idx, log, exit_code, faults, channel, videos_info_path,
                   page_token, video_ids, batch_no, details>>
\* resolve_channel_id, and the skip that follows an absent result.
Resolved(id) ==
    IF id = Absent \/ id = <<>>
    THEN /\ EndLine("skip", NextLine(idx, Len(channels)))
         /\ UNCHANGED <<exit_code, faults>>
    ELSE /\ pc' = "details"
         /\ channel_id' = id
         /\ UNCHANGED <<idx, log, exit_code, faults, channel, videos_info_path,
                        page_token, video_ids, batch_no, details>>

\* What http_get may answer to a lookup: no item, or one channel.
LookupAnswers == {Absent} \cup ApiChannelIds

Resolve ==
    /\ pc = "resolve"
    /\ LET ci == extract_channel_identifier(channels[idx])
           kind == ci[1]
           ident == ci[2]
       IN  IF kind = "id"
           THEN /\ calls' = NoCalls
                /\ Resolved(ident)
                /\ UNCHANGED unresolved
           ELSE /\ calls' = IF kind = "username"
                            THEN [NoCalls EXCEPT !.forUsername = <<ident>>]
                            ELSE [NoCalls EXCEPT !.search = <<ident>>]
                /\ \/ Raise /\ UNCHANGED unresolved
                   \/ \E id \in LookupAnswers :
                        /\ Resolved(id)
                        /\ unresolved' = IF id = Absent
                                          THEN unresolved \cup {idx}
                                          ELSE unresolved
    /\ served' = <<>>
    /\ returned' = <<>>
    /\ UNCHANGED <<cvars, env, channels, channel_rows, files, channels_csv,
                   wrote, row_lines>>

(***************************************************************************)
(* get_channel_details and the lines of main up to the playlist.           *)
(***************************************************************************)
\* items of the channels answer for one ID.
ChannelItem(id) == IF id \in DOMAIN db THEN db[id] ELSE NotFound

\* dict.get(key, default) on a field that may be missing.
Get(field, default) == IF field = Absent THEN default ELSE field

\* channel_rows.append({...}), right after the channel is fetched.
RowsNotAppended(rows, row) == rows
RowsAfterDetails(rows, row) == Append(rows, row)

GetChannelDetails ==
    /\ pc = "details"
    /\ calls' = [calls EXCEPT !.channels = Append(@, channel_id)]
    /\ \/ Raise /\ UNCHANGED channel_rows
       \/ /\ ChannelItem(channel_id) = NotFound
          /\ Raise
          /\ UNCHANGED channel_rows
       \/ /\ ChannelItem(channel_id) # NotFound
          /\ LET item == ChannelItem(channel_id)
             IN  /\ channel' = [found |-> TRUE, id |-> channel_id,
                                title |-> item.title, uploads |-> item.uploads]
                 /\ channel_rows' = RowsAfterDetails(channel_rows,
                        [source_input |-> channels[idx],
                         channel_id |-> channel_id,
                         channel_title |-> Get(item.title, <<>>)])
                 /\ videos_info_path' =
                        sanitize_filename(Get(item.title, ChannelWord))
                 /\ pc' = IF Get(item.uploads, <<>>) # <<>>
                          THEN "playlist" ELSE "write_videos"
          /\ UNCHANGED <<idx, log, exit_code, faults, channel_id, page_token,
                         video_ids, batch_no, details>>
    /\ row_lines' = IF channel_rows' # channel_rows
                     THEN row_lines \cup {idx} ELSE row_lines
    /\ UNCHANGED <<cvars, env, channels, files, channels_csv, served, returned,
                   wrote, unresolved>>

(***************************************************************************)
(* iter_uploads_playlist_video_ids, one page per step.                     *)
(***************************************************************************)
\* The page the platform serves for a cursor, and the cursor it returns.
PageNo(token) == IF token = 0 THEN 1 ELSE token
NextPageToken(k) == IF k < Len(playlist) THEN k + 1 ELSE 0

\* The video IDs a page yields: items with a videoId, in page order.
KeepAll(x) == TRUE
HasVideoId(x) == x # NoVideoId
PageVideoIds(page) == SelectSeq(page, HasVideoId)

ListPage ==
    /\ pc = "playlist"
    /\ calls' = [calls EXCEPT !.playlistItems = Append(@, page_token)]
    /\ \/ Raise /\ UNCHANGED served
       \/ LET k == PageNo(page_token)
              next == NextPageToken(k)
          IN  /\ served' = Append(served, playlist[k])
              /\ video_ids' = video_ids \o PageVideoIds(playlist[k])
              /\ page_token' = next
              /\ IF next # 0
                 THEN pc' = "playlist" /\ batch_no' = batch_no
                 ELSE IF video_ids' # <<>>
                      THEN pc' = "videos" /\ batch_no' = 1
                      ELSE pc' = "write_videos" /\ batch_no' = batch_no
              /\ UNCHANGED <<idx, log, exit_code, faults, channel_id, channel,
                             videos_info_path, details>>
    /\ UNCHANGED <<cvars, env, channels, channel_rows, files, channels_csv,
                   returned, wrote, unresolved, row_lines>>

(***************************************************************************)
(* fetch_videos_details, one batch per step.                               *)
(***************************************************************************)
\* A failed videos call whose batch is given up and the loop goes on.
BatchSkipped ==
    /\ IF batch_no < Len(chunks(video_ids, BatchSize))
       THEN pc' = "videos" /\ batch_no' = batch_no + 1
       ELSE pc' = "write_videos" /\ batch_no' = batch_no
    /\ UNCHANGED <<idx, log, exit_code, faults, channel_id, channel,
                   videos_info_path, page_token, video_ids, details, returned>>
\* http_get raises inside fetch_videos_details: nothing there catches it.
BatchFails == Raise /\ UNCHANGED returned

FetchBatch ==
    /\ pc = "videos"
    /\ LET batches == chunks(video_ids, BatchSize)
           batch == batches[batch_no]
       IN  /\ calls' = [calls EXCEPT !.videos = Append(@, batch)]
           /\ \/ BatchFails
              \/ \E items \in VideoResponses(batch) :
                    /\ returned' = Append(returned, items)
                    /\ details' = details \o items
                    /\ IF batch_no < Len(batches)
                       THEN pc' = "videos" /\ batch_no' = batch_no + 1
                       ELSE pc' = "write_videos" /\ batch_no' = batch_no
                    /\ UNCHANGED <<idx, log, exit_code, faults, channel_id,
                                   channel, videos_info_path, page_token,
                                   video_ids>>
    /\ UNCHANGED <<cvars, env, channels, channel_rows, files, channels_csv,
                   served, wrote, unresolved, row_lines>>

(***************************************************************************)
(* write_videos_info and write_channels_csv.                               *)
(***************************************************************************)
\* The video table of one channel: the three leading columns every row
\* repeats, and the video IDs of the rows in order.
VideoTable(ch, videos, source_input) ==
    [source_input |-> source_input,
     channel_id |-> ch.id,
     channel_title |-> Get(ch.title, <<>>),
     video_ids |-> videos]

\* open(out_path, "w"): the file is created, or replaced.
WriteFile(fs, path, content) ==
    [p \in DOMAIN fs \cup {path} |-> IF p = path THEN content ELSE fs[p]]

WriteVideosInfo ==
    /\ pc = "write_videos"
    /\ \/ Raise /\ UNCHANGED <<files, wrote>>
       \/ /\ files' = WriteFile(files, videos_info_path,
                          VideoTable(channel, details, channels[idx]))
          /\ wrote' = wrote \cup {[line |-> idx, path |-> videos_info_path]}
          /\ EndLine("ok", NextLine(idx, Len(channels)))
          /\ UNCHANGED <<exit_code, faults>>
    /\ UNCHANGED <<cvars, env, channels, channel_rows, channels_csv, calls,
                   served, returned, unresolved, row_lines>>

WriteChannelsCsv ==
    /\ pc = "write_channels"
    /\ channels_csv' = Append(channels_csv, channel_rows)
    /\ pc' = "done"
    /\ exit_code' = 0
    /\ UNCHANGED <<cvars, env, channels, idx, channel_rows, locals, files, log,
                   history>>

Next ==
    \/ CheckApiKey
    \/ ReadChannels
    \/ Resolve
    \/ GetChannelDetails
    \/ ListPage
    \/ FetchBatch
    \/ WriteVideosInfo
    \/ WriteChannelsCsv

Spec == Init /\ [][Next]_vars

(***************************************************************************)
(* Runs over one input line and long uploads playlists.                    *)
(***************************************************************************)
\* Items per page: maxResults is 50, a page may hold fewer.
PageSizes == {0, 1, 20, BatchSize}
BigPlaylists ==
    UNION { { MkPlaylist(sz, bad) :
                sz \in [1..n -> PageSizes], bad \in [1..n -> BOOLEAN] } :
            n \in 1..MaxPages }
UploadsDb ==
    [c \in ApiChannelIds |->
        [found |-> TRUE, title |-> <<"A",":","b">>, uploads |-> PlaylistId]]

InitUploads ==
    /\ value = <<>>
    /\ classified = NotYet
    /\ api_key = <<"k","e","y">>
    /\ file \in [1..1 -> {UCa \o <<" ">>, <<"@","h","i">>}]
    /\ db = UploadsDb
    /\ playlist \in BigPlaylists
    /\ Idle

SpecUploads == InitUploads /\ [][Next]_vars

(***************************************************************************)
(* The classifier on its own.                                              *)
(***************************************************************************)
InitClassify ==
    /\ value \in ClassifierInputs
    /\ classified = NotYet
    /\ api_key = <<>>
    /\ file = <<>>
    /\ db = [c \in ApiChannelIds |-> NotFound]
    /\ playlist = <<>>
    /\ Idle

Classify ==
    /\ classified = NotYet
    /\ classified' = extract_channel_identifier(value)
    /\ UNCHANGED <<value, dvars>>

NextClassify == Classify

SpecClassify == InitClassify /\ [][NextClassify]_vars

(***************************************************************************)
(* Properties.                                                             *)
(***************************************************************************)
\* The lines for which write_videos_info completed.
LinesWritten == {w.line : w \in wrote}
\* The line whose requests calls, served and returned describe has ended.
AtLineEnd == pc \in {"resolve", "write_channels", "done"} /\ log # <<>>
Last(s) == s[Len(s)]

RECURSIVE Concat(_)
Concat(ss) == IF ss = <<>> THEN <<>> ELSE Head(ss) \o Concat(Tail(ss))

IsVideoId(x) == x # 0
\* The video IDs present in the items of a sequence of pages, in order.
IdsOf(pages) == SelectSeq(Concat(pages), IsVideoId)

IsPrefix(s, t) == Len(s) <= Len(t) /\ s = SubSeq(t, 1, Len(s))

\* C1: a failure raised at any stage of one input line never ends the run:
\* when main returns, every usable line has been processed (one message per
\* line), and every line that met no failure and was not skipped had its
\* video table written.
C1_FailureIsolated ==
    pc = "done" =>
        /\ Len(log) = Len(channels)
        /\ \A j \in 1..Len(channels) :
              (j \notin faults /\ j \notin unresolved) =>
                  /\ j \in LinesWritten
                  /\ log[j] = "ok"
        /\ \A j \in faults : log[j] = "error"

\* A run in which the first line failed and the second was written.
C1_Witness ==
    /\ pc = "done"
    /\ 1 \in faults
    /\ 2 \in LinesWritten

\* C2: a line the resolver could not resolve is reported as a skip, causes
\* no channels-by-id, playlistItems or videos request, no video table and no
\* channel-table row; a two-line run of a channel ID that succeeds and a
\* handle without search results ends with one video table and a channel
\* table of one row.
C2_SkipUnresolved ==
    /\ \A j \in unresolved :
          /\ j <= Len(log)
          /\ log[j] = "skip"
          /\ j \notin LinesWritten
          /\ j \notin row_lines
          /\ j \notin faults
          /\ (AtLineEnd /\ j = Len(log)) =>
                /\ calls.channels = <<>>
                /\ calls.playlistItems = <<>>
                /\ calls.videos = <<>>
    /\ ( /\ pc = "done"
         /\ Len(channels) = 2
         /\ extract_channel_identifier(channels[1])[1] = "id"
         /\ 1 \in LinesWritten
         /\ 2 \in unresolved )
       => /\ Cardinality(DOMAIN files) = 1
          /\ Len(channels_csv) = 1
          /\ Len(channels_csv[1]) = 1
          /\ log = <<"ok", "skip">>

\* The end-to-end scenario: an ID line written, then a handle that search
\* does not know.
C2_Witness ==
    /\ pc = "done"
    /\ Len(channels) = 2
    /\ 1 \in LinesWritten
    /\ 2 \in unresolved
    /\ calls.search # <<>>

\* C3 as stated: whenever the credential is present, the run writes the
\* channel table exactly once.
C3_Original ==
    (pc = "done" /\ api_key # <<>>) => Len(channels_csv) = 1

\* C3 as amended: with the credential present and at least one usable input
\* line the channel table is written exactly once, after every line has
\* been processed; with no usable line main returns 1 and writes none.
C3_ChannelTableOnce ==
    /\ Len(channels_csv) <= 1
    /\ channels_csv # <<>> =>
          /\ pc = "done"
          /\ Len(log) = Len(channels)
          /\ channels_csv[1] = channel_rows
    /\ (pc = "done" /\ api_key # <<>> /\ channels # <<>>) =>
          Len(channels_csv) = 1 /\ exit_code = 0
    /\ (pc = "done" /\ api_key # <<>> /\ channels = <<>>) =>
          channels_csv = <<>> /\ exit_code = 1

\* A finished run of two lines, one failed and one skipped, with its table.
C3_Witness ==
    /\ pc = "done"
    /\ Len(channels) = 2
    /\ faults # {}
    /\ unresolved # {}
    /\ Len(channels_csv) = 1

\* C6 as stated: at the end of the run every successfully processed line
\* has a video table of its own, carrying its raw string as source_input.
C6_OneFilePerLine ==
    pc = "done" =>
        /\ Cardinality(DOMAIN files) = Cardinality(LinesWritten)
        /\ \A j \in LinesWritten :
              \E p \in DOMAIN files : files[p].source_input = channels[j]

\* C7: without an API key main returns 2 at once: the input file is not
\* read, no request is sent, no file is written.
C7_NoKeyNoWork ==
    api_key = <<>> =>
        /\ pc \in {"start", "done"}
        /\ pc = "done" => exit_code = 2
        /\ channels = <<>>
        /\ calls = NoCalls
        /\ log = <<>>
        /\ DOMAIN files = {}
        /\ channels_csv = <<>>

\* A halted run whose input file holds a usable line.
C7_Witness ==
    /\ api_key = <<>>
    /\ pc = "done"
    /\ read_channels(file) # <<>>

\* C9 as stated: the channel-table row of a line is appended only after
\* its video table was written.
C9_Original ==
    \A j \in row_lines : j \in LinesWritten

\* C9 as amended: the row is appended when the channel-detail fetch has
\* succeeded, before the uploads are enumerated: every line past that fetch
\* has its row (the last one, with its raw string), every written video
\* table has a row, skipped lines have none, and the later stages follow
\* in the order enumeration, batch fetch, video-table write.
C9_RowAfterDetails ==
    /\ Len(channel_rows) = Cardinality(row_lines)
    /\ LinesWritten \subseteq row_lines
    /\ row_lines \cap unresolved = {}
    /\ pc \in {"playlist", "videos", "write_videos"} =>
          /\ idx \in row_lines
          /\ Last(channel_rows).source_input = channels[idx]
          /\ Last(channel_rows).channel_id = channel_id
          /\ Len(calls.channels) = 1
          /\ idx \notin LinesWritten
    /\ pc \in {"resolve", "details"} => idx \notin row_lines
    /\ pc = "details" => calls.channels = <<>> /\ calls.playlistItems = <<>>
    /\ pc = "playlist" => calls.videos = <<>>
    /\ calls.videos # <<>> => calls.playlistItems # <<>>

\* A finished run whose channel table holds the row of a line that failed
\* after its channel was fetched.
C9_Witness ==
    /\ pc = "done"
    /\ \E j \in row_lines : j \in faults /\ j \notin LinesWritten
    /\ channels_csv # <<>>

\* C4: the enumerator requests the pages once each, in cursor order from
\* the empty cursor, yields exactly the video IDs present in their items in
\* order, and stops at the first page without a next-page cursor.
C4_Enumerator ==
    /\ pc \in {"playlist", "videos", "write_videos"} =>
          /\ IsPrefix(served, playlist)
          /\ Len(calls.playlistItems) = Len(served)
          /\ \A k \in 1..Len(calls.playlistItems) :
                calls.playlistItems[k] = IF k = 1 THEN 0 ELSE k
          /\ video_ids = IdsOf(served)
    /\ (pc \in {"videos", "write_videos"} /\ calls.playlistItems # <<>>) =>
          /\ served = playlist
          /\ video_ids = IdsOf(playlist)

\* An enumeration over the largest number of pages, one item without a
\* video ID among them, that has ended.
C4_Witness ==
    /\ pc = "videos"
    /\ Len(playlist) = MaxPages
    /\ served = playlist
    /\ \E k \in 1..Len(playlist) : \E j \in 1..Len(playlist[k]) :
          playlist[k][j] = NoVideoId
    /\ Len(video_ids) > 2 * BatchSize

\* C5: the batch fetcher sends ceil(n / 50) videos requests of at most 50
\* IDs each, whose concatenation is the input list, and returns the
\* concatenation of the answers in request order; 120 IDs go out as
\* batches of 50, 50 and 20.
C5_Batches ==
    /\ pc \in {"videos", "write_videos"} =>
          /\ \A k \in 1..Len(calls.videos) :
                Len(calls.videos[k]) \in 1..BatchSize
          /\ IsPrefix(Concat(calls.videos), video_ids)
          /\ Len(returned) = Len(calls.videos)
          /\ details = Concat(returned)
    /\ (pc = "write_videos" /\ calls.videos # <<>>) =>
          /\ Len(calls.videos) = (Len(video_ids) + BatchSize - 1) \div BatchSize
          /\ Concat(calls.videos) = video_ids
          /\ Len(video_ids) = 120 =>
                [k \in 1..3 |-> Len(calls.videos[k])] = <<50, 50, 20>>

\* 120 IDs fetched in three batches, one answer not in request order.
C5_Witness ==
    /\ pc = "write_videos"
    /\ Len(video_ids) = 120
    /\ Len(calls.videos) = 3
    /\ details # video_ids

\* C10: when the videos request of batch k fails, it is the last videos
\* request of that channel (no later batch, no retry), the line ends as an
\* error and no video table is written for it.
C10_BatchFailureAborts ==
    Len(calls.videos) > Len(returned) =>
        /\ Len(calls.videos) = Len(returned) + 1
        /\ AtLineEnd
        /\ Last(log) = "error"
        /\ Len(log) \in faults
        /\ Len(log) \notin LinesWritten
        /\ IsPrefix(Concat(calls.videos), IdsOf(served))

\* A run whose second or later batch failed after earlier ones returned.
C10_Witness ==
    /\ Len(calls.videos) > Len(returned)
    /\ Len(returned) >= 1
    /\ pc = "done"

\* C8 as stated: "UC" followed by 20 arbitrary characters is classified as
\* an id with the very same string.
C8_Original ==
    (classified # NotYet /\ value \in UcInputs) =>
        classified = <<"id", value>>

\* C8 as amended: "UC" followed by 20 characters the last of which is not
\* white space is classified as an id with the very same string.
C8_UcIdUnchanged ==
    ( /\ classified # NotYet
      /\ value \in UcInputs
      /\ Last(value) \notin Whitespace )
    => classified = <<"id", value>>

\* A classified input with white space inside and none at its end.
C8_Witness ==
    /\ classified # NotYet
    /\ value \in UcInputs
    /\ Last(value) \notin Whitespace
    /\ \E k \in 1..Len(value) : value[k] \in Whitespace

====
